---- MODULE Spec2Model ----
(***************************************************************************)
(* Flow telemetry and labeling engine of the SDN controller                *)
(* (src/ryu_controller.py): the attacker registry and its REST interface,  *)
(* the flow-stats reply handler with its flow history, derived metrics and *)
(* labeling, and the CSV dataset file.                                     *)
(*                                                                         *)
(* Floats are modelled as exact rationals [n |-> numerator, d |-> denom.]  *)
(* in lowest terms with d > 0; time.time() is read at a granularity of one *)
(* second.                                                                 *)
(***************************************************************************)
EXTENDS Integers, Sequences, FiniteSets, TLC

VARIABLES
    datapaths,      \* self.datapaths: the ids of the registered datapaths
    flow_history,   \* self.flow_history: flow_id -> last snapshot
    attacker_ips,   \* self.attacker_ips
    csv_file,       \* the lines of self.csv_filename: header, then rows
    observed,       \* per written row: what the handler read to produce it
    processed,      \* number of records handled that were not skipped
    skipped,        \* a table-miss record has been skipped
    raised,         \* an exception has escaped the reply handler
    lastOp,         \* the last administrative request and its response
    lastFailure,    \* the last flow-stats reply one of whose appends failed
    running,        \* the green thread that holds the processor, or "hub"
    mon,            \* _monitor: its position and the requests of this tick
    outstanding,    \* per datapath: requests sent and not yet answered
    inbox,          \* replies delivered to the application, not yet handled
    ticks,          \* passes of the monitor loop begun
    ctx,            \* per handler context: the call under way and its locals
    serial,         \* the registry as the completed requests alone make it
    boot,           \* __init__: its position and the attributes it has made
    topo            \* run_topology of the traffic script: position and log

\* the handler calls under way
calls == <<ctx, serial>>

\* the green threads and what they wait for
threads == <<running, mon, outstanding, inbox, ticks, calls, boot>>

vars == <<datapaths, flow_history, attacker_ips, csv_file, observed,
          processed, skipped, raised, lastOp, lastFailure, threads, topo>>

----------------------------------------------------------------------------
(* Bounds of the model *)

\* rows the dataset file may grow to, and addresses per "ips" list
MaxRows == 2
MaxIps == 2

\* passes of the monitor loop
MaxTicks == 2

\* calls of run_topology
MaxRuns == 2

----------------------------------------------------------------------------
(* Rational arithmetic: Python's true division on the values used *)

RECURSIVE Gcd(_, _)
Gcd(a, b) == IF b = 0 THEN a ELSE Gcd(b, a % b)

Abs(x) == IF x < 0 THEN -x ELSE x

\* what a division by zero raises
ZeroDivisionError == [error |-> "ZeroDivisionError"]

\* n / d for integers, in lowest terms with a positive denominator
Rat(n, d) ==
    IF d = 0 THEN ZeroDivisionError
    ELSE LET g == Gcd(Abs(n), Abs(d))
             s == IF d < 0 THEN -1 ELSE 1
         IN [n |-> s * (n \div g), d |-> s * (d \div g)]

Zero == Rat(0, 1)

\* a + b for rationals
RatAdd(a, b) == Rat(a.n * b.d + b.n * a.d, a.d * b.d)

\* integer k divided by the rational r
IntDivRat(k, r) == Rat(k * r.d, r.n)

\* r > 0, r < 0, r > k and r < k for a rational r and an integer k
RatPos(r) == r.n > 0
RatNeg(r) == r.n < 0
RatGt(r, k) == r.n > k * r.d
RatLt(r, k) == r.n < k * r.d

----------------------------------------------------------------------------
(* Inputs *)

NsPerSec == 1000000000

None == [none |-> TRUE]

DPIDs == {1, 2}

\* the values time.time() returns; the wall clock is not monotonic, so a
\* later read may return the earlier value
Times == {0, 2}

HostA == "10.0.0.1"
HostB == "10.0.0.2"
HostC == "10.0.0.3"
NoAddress == "0.0.0.0"

\* Matches as installed by switch_features_handler and _packet_in_handler
TableMissMatch == <<>>
L2Match == [in_port |-> 1, eth_dst |-> "00:00:00:00:00:02",
            eth_src |-> "00:00:00:00:00:01"]
IcmpMatch == [in_port |-> 1, eth_type |-> 2048, ipv4_src |-> HostA,
              ipv4_dst |-> HostB, ip_proto |-> 1]
TcpMatch == [in_port |-> 1, eth_type |-> 2048, ipv4_src |-> HostA,
             ipv4_dst |-> HostB, ip_proto |-> 6, tcp_src |-> 1234,
             tcp_dst |-> 80]

FlowStat(prio, m, sec, nsec, idle, hard, pkts, bytes) ==
    [priority |-> prio, match |-> m, duration_sec |-> sec,
     duration_nsec |-> nsec, idle_timeout |-> idle, hard_timeout |-> hard,
     packet_count |-> pkts, byte_count |-> bytes]

\* The per-rule records the switches report: the table-miss rule, two
\* snapshots of one TCP rule, an ICMP rule that has just been installed and
\* a busy rule without IP match fields
MissStat == FlowStat(0, TableMissMatch, 5, 0, 0, 0, 5, 300)
TcpEarly == FlowStat(1, TcpMatch, 1, 0, 10, 30, 100, 10000)
TcpLate == FlowStat(1, TcpMatch, 3, 0, 10, 30, 300, 30000)
IcmpNew == FlowStat(1, IcmpMatch, 0, 0, 10, 30, 0, 0)
L2Busy == FlowStat(1, L2Match, 0, 500000000, 10, 30, 5000, 250000)

\* The reply batches the datapaths deliver.  Datapath 2 is on the path of
\* the TCP flow only.
Replies == {
    [dpid |-> 1, body |-> <<MissStat>>],
    [dpid |-> 1, body |-> <<TcpEarly>>],
    [dpid |-> 1, body |-> <<TcpLate>>],
    [dpid |-> 1, body |-> <<IcmpNew>>],
    [dpid |-> 1, body |-> <<L2Busy>>],
    [dpid |-> 1, body |-> <<MissStat, TcpEarly>>],
    [dpid |-> 1, body |-> <<TcpEarly, TcpLate>>],
    [dpid |-> 1, body |-> <<L2Busy, MissStat, IcmpNew>>],
    [dpid |-> 2, body |-> <<TcpEarly>>] }

\* the elements of a list
Range(ips) == {ips[k] : k \in DOMAIN ips}

RECURSIVE SeqsUpTo(_, _)
\* the sequences over S of length 0..n
SeqsUpTo(S, n) ==
    IF n = 0 THEN {<<>>}
    ELSE LET shorter == SeqsUpTo(S, n - 1)
         IN shorter \cup {Append(q, x) : q \in shorter, x \in S}

\* the "ips" lists of the requests to /ddos/attackers while flows are
\* collected, and those of the administrative interface taken alone
IpLists == {<<HostA>>}
AdminIpLists == SeqsUpTo({HostA, HostB, HostC}, MaxIps)

\* the hosts of the topology, the only addresses a request can mean
Addresses == {HostA, HostB, HostC}

\* elements of an "ips" list that are no addresses: a JSON string that is
\* not an address, and a JSON array nested in the list, which Python
\* decodes to a list and cannot hash
NotAnAddress == "not-an-ip"
NestedList == "[[]]"

\* x in a set, set.add(x): raise TypeError for an unhashable x
Hashable(x) == x # NestedList

\* The request body of POST /ddos/attackers, by what json.loads and
\* body.get('ips', []) make of it:
\*   "invalid_json"  the body is no JSON text
\*   "json_array"    the body is a bare JSON array, ["10.0.0.1"]
\*   "no_ips"        a JSON object without the key "ips"
\*   "ips_not_list"  {"ips": "10.0.0.1"}
\*   "ips_list"      {"ips": [...]} with the elements ips
Payload(kind, ips) == [kind |-> kind, ips |-> ips]

Payloads ==
    {Payload("ips_list", ips) :
        ips \in SeqsUpTo({HostA, HostB}, MaxIps) \cup
               { <<NotAnAddress>>, <<HostA, NotAnAddress>>,
                 <<NestedList>>, <<HostA, NestedList>> }}
    \cup { Payload("invalid_json", <<>>), Payload("json_array", <<HostA>>),
           Payload("no_ips", <<>>), Payload("ips_not_list", <<HostA>>) }

----------------------------------------------------------------------------
(* init_csv *)

headers == <<
    "timestamp", "datapath_id", "flow_id",
    "src_ip", "dst_ip", "src_port", "dst_port", "protocol",
    "duration_sec", "duration_nsec", "idle_timeout", "hard_timeout",
    "priority", "packet_count", "byte_count",
    "packet_rate", "byte_rate", "flow_speed",
    "packets_per_flow", "bytes_per_packet", "bytes_per_flow",
    "flow_duration", "flow_iat", "active_time",
    "label" >>

\* the column of a header name
Col(name) == CHOOSE i \in DOMAIN headers : headers[i] = name

\* the value a line holds under a header name
Field(line, name) == line[Col(name)]

----------------------------------------------------------------------------
(* _generate_flow_id *)

\* dict.get(key, default)
Get(m, key, default) == IF key \in DOMAIN m THEN m[key] ELSE default

\* a key that leaves the datapath out
_generate_flow_id_no_dpid(stat, dpid) ==
    LET match == stat.match
        src_ip == Get(match, "ipv4_src", "0.0.0.0")
        dst_ip == Get(match, "ipv4_dst", "0.0.0.0")
        src_port == Get(match, "tcp_src", Get(match, "udp_src", 0))
        dst_port == Get(match, "tcp_dst", Get(match, "udp_dst", 0))
        protocol == Get(match, "ip_proto", 0)
    IN src_ip \o "_" \o dst_ip \o "_"
         \o ToString(src_port) \o "_" \o ToString(dst_port) \o "_"
         \o ToString(protocol)

_generate_flow_id(stat, dpid) ==
    LET match == stat.match
        src_ip == Get(match, "ipv4_src", "0.0.0.0")
        dst_ip == Get(match, "ipv4_dst", "0.0.0.0")
        src_port == Get(match, "tcp_src", Get(match, "udp_src", 0))
        dst_port == Get(match, "tcp_dst", Get(match, "udp_dst", 0))
        protocol == Get(match, "ip_proto", 0)
    IN ToString(dpid) \o "_" \o src_ip \o "_" \o dst_ip \o "_"
         \o ToString(src_port) \o "_" \o ToString(dst_port) \o "_"
         \o ToString(protocol)

----------------------------------------------------------------------------
(* _label_flow, mark_attacker, clear_attackers *)

\* labelings that do not consult the registry
_label_flow_normal(registry, src_ip) == 0
_label_flow_attack(registry, src_ip) == 1

_label_flow(registry, src_ip) == IF src_ip \in registry THEN 1 ELSE 0

\* a mark that removes an address already marked
mark_attacker_toggle(registry, ip_address) ==
    IF ip_address \notin registry THEN registry \cup {ip_address}
    ELSE registry \ {ip_address}

mark_attacker(registry, ip_address) ==
    IF ip_address \notin registry THEN registry \cup {ip_address}
    ELSE registry

\* a clear that counts after clearing
clear_attackers_late(registry) ==
    [count |-> Cardinality({}), attacker_ips |-> {}]

clear_attackers(registry) ==
    [count |-> Cardinality(registry), attacker_ips |-> {}]

----------------------------------------------------------------------------
(* _flow_stats_reply_handler: one record *)

\* stat.duration_sec + stat.duration_nsec / 1e9
Duration(stat) ==
    RatAdd(Rat(stat.duration_sec, 1), Rat(stat.duration_nsec, NsPerSec))

\* rates from the totals instead of the deltas
DeltaRates_totals(stat, prev_stat, current_time) ==
    LET time_diff == current_time - prev_stat.timestamp
    IN [packet_rate |->
            IF time_diff > 0 THEN Rat(stat.packet_count, time_diff)
            ELSE Zero,
        byte_rate |->
            IF time_diff > 0 THEN Rat(stat.byte_count, time_diff)
            ELSE Zero,
        flow_iat |-> Rat(time_diff, 1)]

\* the branch taken when prev_stat is set and duration > 0
DeltaRates(stat, prev_stat, current_time) ==
    LET time_diff == current_time - prev_stat.timestamp
    IN [packet_rate |->
            IF time_diff > 0
            THEN Rat(stat.packet_count - prev_stat.packet_count, time_diff)
            ELSE Zero,
        byte_rate |->
            IF time_diff > 0
            THEN Rat(stat.byte_count - prev_stat.byte_count, time_diff)
            ELSE Zero,
        flow_iat |-> Rat(time_diff, 1)]

\* averages without the guard on duration
AverageRates_unguarded(stat, duration) ==
    [packet_rate |-> IntDivRat(stat.packet_count, duration),
     byte_rate |-> IntDivRat(stat.byte_count, duration),
     flow_iat |-> Zero]

\* the else branch
AverageRates(stat, duration) ==
    [packet_rate |->
        IF RatPos(duration) THEN IntDivRat(stat.packet_count, duration)
        ELSE Zero,
     byte_rate |->
        IF RatPos(duration) THEN IntDivRat(stat.byte_count, duration)
        ELSE Zero,
     flow_iat |-> Zero]

\* if prev_stat and duration > 0
UseDelta(stat, prev_stat, duration) == prev_stat # None /\ RatPos(duration)

BytesPerPacket(stat) ==
    IF stat.packet_count > 0 THEN Rat(stat.byte_count, stat.packet_count)
    ELSE Zero

\* the derived metrics of one record, given flow_history.get(flow_id, None)
Metrics(stat, prev_stat, current_time) ==
    LET duration == Duration(stat)
        rates == IF UseDelta(stat, prev_stat, duration)
                 THEN DeltaRates(stat, prev_stat, current_time)
                 ELSE AverageRates(stat, duration)
    IN [duration |-> duration,
        packet_rate |-> rates.packet_rate,
        byte_rate |-> rates.byte_rate,
        flow_speed |-> rates.packet_rate,
        flow_iat |-> rates.flow_iat,
        bytes_per_packet |-> BytesPerPacket(stat)]

\* a division of the metric computation raised
MetricsRaised(m) ==
    \E f \in DOMAIN m : m[f] = ZeroDivisionError

\* datetime.now().isoformat()
IsoFormat(t) == "T" \o ToString(t)

\* a row list that leaves one of the duplicated columns out
Row_short(stat, dpid, flow_id, m, label, current_time) ==
    LET match == stat.match
        src_ip == Get(match, "ipv4_src", "0.0.0.0")
        dst_ip == Get(match, "ipv4_dst", "0.0.0.0")
        src_port == Get(match, "tcp_src", Get(match, "udp_src", 0))
        dst_port == Get(match, "tcp_dst", Get(match, "udp_dst", 0))
        protocol == Get(match, "ip_proto", 0)
    IN << IsoFormat(current_time),
          dpid,
          flow_id,
          src_ip, dst_ip, src_port, dst_port, protocol,
          stat.duration_sec, stat.duration_nsec,
          stat.idle_timeout, stat.hard_timeout, stat.priority,
          stat.packet_count, stat.byte_count,
          m.packet_rate, m.byte_rate, m.flow_speed,
          stat.packet_count, m.bytes_per_packet, stat.byte_count,
          m.duration, m.flow_iat,
          label >>

\* a row list whose absent addresses are left blank
Row_blank(stat, dpid, flow_id, m, label, current_time) ==
    LET match == stat.match
        src_ip == Get(match, "ipv4_src", "")
        dst_ip == Get(match, "ipv4_dst", "")
        src_port == Get(match, "tcp_src", Get(match, "udp_src", 0))
        dst_port == Get(match, "tcp_dst", Get(match, "udp_dst", 0))
        protocol == Get(match, "ip_proto", 0)
    IN << IsoFormat(current_time),
          dpid,
          flow_id,
          src_ip, dst_ip, src_port, dst_port, protocol,
          stat.duration_sec, stat.duration_nsec,
          stat.idle_timeout, stat.hard_timeout, stat.priority,
          stat.packet_count, stat.byte_count,
          m.packet_rate, m.byte_rate, m.flow_speed,
          stat.packet_count, m.bytes_per_packet, stat.byte_count,
          m.duration, m.flow_iat, m.duration,
          label >>

\* the row list written for one record
Row(stat, dpid, flow_id, m, label, current_time) ==
    LET match == stat.match
        src_ip == Get(match, "ipv4_src", "0.0.0.0")
        dst_ip == Get(match, "ipv4_dst", "0.0.0.0")
        src_port == Get(match, "tcp_src", Get(match, "udp_src", 0))
        dst_port == Get(match, "tcp_dst", Get(match, "udp_dst", 0))
        protocol == Get(match, "ip_proto", 0)
    IN << IsoFormat(current_time),
          dpid,
          flow_id,
          src_ip, dst_ip, src_port, dst_port, protocol,
          stat.duration_sec, stat.duration_nsec,
          stat.idle_timeout, stat.hard_timeout, stat.priority,
          stat.packet_count, stat.byte_count,
          m.packet_rate, m.byte_rate, m.flow_speed,
          stat.packet_count, m.bytes_per_packet, stat.byte_count,
          m.duration, m.flow_iat, m.duration,
          label >>

\* the snapshot stored in flow_history
Snapshot(stat, current_time) ==
    [timestamp |-> current_time,
     packet_count |-> stat.packet_count,
     byte_count |-> stat.byte_count]

\* a dict assignment that keeps the value a present key has
Put_first(d, key, value) ==
    [k \in DOMAIN d \cup {key} |-> IF k \in DOMAIN d THEN d[k] ELSE value]

\* dict assignment d[key] = value
Put(d, key, value) ==
    [k \in DOMAIN d \cup {key} |-> IF k = key THEN value ELSE d[k]]

\* an append that writes the header line again
AppendLine_header(file, row) == file \o <<headers, row>>

\* a file opened with mode 'w': what was written is lost
AppendLine_truncate(file, row) == <<headers, row>>

\* with open(self.csv_filename, 'a') as f: csv.writer(f).writerow(row)
AppendLine(file, row) == Append(file, row)

\* a loop that skips nothing
Skipped_never(stat) == FALSE

\* if stat.priority == 0: continue
Skipped(stat) == stat.priority = 0

\* a handler that stores the snapshot before it appends the row
AppendFailed_stored(st, flow_id, snapshot) ==
    [st EXCEPT !.raised = TRUE,
               !.flow_history = Put(st.flow_history, flow_id, snapshot)]

\* the append of a record raises: the exception leaves the handler before
\* the assignment to self.flow_history[flow_id]
AppendFailed(st, flow_id, snapshot) == [st EXCEPT !.raised = TRUE]

\* One iteration of the loop over the reply body.  st holds the handler's
\* view of flow_history, the file and the log of what was read; an exception
\* ends the handler, leaving what the earlier iterations wrote.
ProcessStat(st, stat, dpid, current_time, registry, start, write_ok) ==
    IF st.raised \/ Skipped(stat) THEN st
    ELSE
        LET flow_id == _generate_flow_id(stat, dpid)
            prev_stat == Get(st.flow_history, flow_id, None)
            m == Metrics(stat, prev_stat, current_time)
            src_ip == Get(stat.match, "ipv4_src", "0.0.0.0")
            label == _label_flow(registry, src_ip)
            row == Row(stat, dpid, flow_id, m, label, current_time)
        IN IF MetricsRaised(m) THEN [st EXCEPT !.raised = TRUE]
           \* with open(self.csv_filename, 'a'): OSError, nothing appended
           ELSE IF ~write_ok
                THEN AppendFailed(st, flow_id, Snapshot(stat, current_time))
           ELSE [flow_history |->
                    Put(st.flow_history, flow_id,
                        Snapshot(stat, current_time)),
                 csv_file |-> AppendLine(st.csv_file, row),
                 observed |-> Append(st.observed,
                    [stat |-> stat, dpid |-> dpid, prev_stat |-> prev_stat,
                     current_time |-> current_time,
                     attacker_ips |-> registry, start |-> start]),
                 raised |-> FALSE]

RECURSIVE ProcessBody(_, _, _, _, _, _, _)
\* for stat in body: ..., where the append of the record at position
\* fail_at of the body fails (no append fails when fail_at is 0)
ProcessBody(st, body, dpid, current_time, registry, start, fail_at) ==
    IF body = <<>> THEN st
    ELSE ProcessBody(
            ProcessStat(st, Head(body), dpid, current_time, registry, start,
                        fail_at # 1),
            Tail(body), dpid, current_time, registry, start, fail_at - 1)

RECURSIVE Counted(_)
\* the number of records of a body that are not the table-miss entry
Counted(body) ==
    IF body = <<>> THEN 0
    ELSE (IF Head(body).priority = 0 THEN 0 ELSE 1) + Counted(Tail(body))

----------------------------------------------------------------------------
(* State machine *)

NoOp == [op |-> "none"]

\* the green threads that run a handler: the requests of the REST interface
\* and the replies of the datapaths each get one
Contexts == {"h1", "h2"}

\* no call under way
Idle == [pc |-> "idle"]

\* an __init__ that starts the monitor before it creates the file
InitOrder_spawn_first ==
    <<"mac_to_port", "datapaths", "flow_history", "monitor_thread",
      "init_csv", "attacker_ips", "register">>

\* an __init__ that registers the REST interface before the registry exists
InitOrder_register_first ==
    <<"mac_to_port", "datapaths", "flow_history", "init_csv",
      "monitor_thread", "register", "attacker_ips">>

\* the statements of __init__ in their order: the attributes assigned, the
\* call of init_csv, hub.spawn(self._monitor) and wsgi_app.register
InitOrder ==
    <<"mac_to_port", "datapaths", "flow_history", "init_csv",
      "monitor_thread", "attacker_ips", "register">>

\* the traffic script before its first call of run_topology
TopoIdle ==
    [pc |-> "idle", at |-> 0, run |-> 0, started |-> FALSE, exc |-> FALSE,
     mark |-> "none", attack |-> FALSE, clear |-> "none",
     stopped |-> FALSE, prior |-> "clean"]

\* the application once __init__ has returned
Constructed ==
    [pc |-> "run", at |-> Len(InitOrder) + 1, made |-> Range(InitOrder)]

Init ==
    /\ datapaths = {}
    /\ flow_history = <<>>
    /\ attacker_ips = {}
    /\ csv_file = <<headers>>
    /\ observed = <<>>
    /\ processed = 0
    /\ skipped = FALSE
    /\ raised = FALSE
    /\ lastOp = NoOp
    /\ lastFailure = NoOp
    /\ running = "hub"
    /\ mon = [pc |-> "sleep", sent |-> <<>>, size |-> 0]
    /\ outstanding = [dpid \in DPIDs |-> 0]
    /\ inbox = <<>>
    /\ ticks = 0
    /\ ctx = [c \in Contexts |-> Idle]
    /\ serial = {}
    /\ boot = Constructed
    /\ topo = TopoIdle

\* switch_features_handler: self.datapaths[datapath.id] = datapath
SwitchFeatures(dpid) ==
    /\ datapaths' = datapaths \cup {dpid}
    /\ UNCHANGED <<flow_history, attacker_ips, csv_file, observed, processed,
                   skipped, raised, lastOp, lastFailure, threads, topo>>

\* _flow_stats_reply_handler for a reply of a registered datapath, with
\* current_time the value of time.time() and fail_at the position of the
\* record whose append to the file fails
HandleStats(dpid, body, current_time, fail_at) ==
    /\ dpid \in datapaths
    /\ processed + Counted(body) <= MaxRows
    /\ LET st == ProcessBody(
                    [flow_history |-> flow_history, csv_file |-> csv_file,
                     observed |-> observed, raised |-> FALSE],
                    body, dpid, current_time, attacker_ips, Len(csv_file),
                    fail_at)
       IN /\ flow_history' = st.flow_history
          /\ csv_file' = st.csv_file
          /\ observed' = st.observed
          /\ raised' = (raised \/ st.raised)
    /\ processed' = processed + Counted(body)
    /\ skipped' = (skipped \/ Counted(body) < Len(body))
    /\ lastFailure' =
            IF fail_at \in DOMAIN body /\ ~Skipped(body[fail_at])
            THEN [op |-> "flow_stats_reply", dpid |-> dpid, body |-> body,
                  current_time |-> current_time, fail_at |-> fail_at,
                  start |-> Len(csv_file)]
            ELSE lastFailure
    /\ UNCHANGED <<datapaths, attacker_ips, lastOp>>

\* the handler run on its own
FlowStatsReplyIO(dpid, body, current_time, fail_at) ==
    /\ HandleStats(dpid, body, current_time, fail_at)
    /\ UNCHANGED <<threads, topo>>

\* the handler when every append succeeds
FlowStatsReply(dpid, body, current_time) ==
    FlowStatsReplyIO(dpid, body, current_time, 0)

RECURSIVE MarkAll(_, _)
\* for ip in ips: self.collector_app.mark_attacker(ip), up to the first
\* element that raises
MarkAll(registry, ips) ==
    IF ips = <<>> \/ ~Hashable(Head(ips)) THEN registry
    ELSE MarkAll(mark_attacker(registry, Head(ips)), Tail(ips))

\* the loop over ips raises
MarkRaises(ips) == \E k \in DOMAIN ips : ~Hashable(ips[k])

\* post_attackers: the registry, the status and the number in the body of
\* the response ("Marked {len(ips)} IPs as attackers.")
post_attackers(registry, payload) ==
    LET ips == IF payload.kind = "no_ips" THEN <<>> ELSE payload.ips
    IN CASE payload.kind \in {"invalid_json", "json_array"} ->
                \* json.loads or body.get raises: except Exception
                [attacker_ips |-> registry, status |-> 500, count |-> 0]
         [] payload.kind = "ips_not_list" ->
                [attacker_ips |-> registry, status |-> 400, count |-> 0]
         [] OTHER ->
                [attacker_ips |-> MarkAll(registry, ips),
                 status |-> IF MarkRaises(ips) THEN 500 ELSE 200,
                 count |-> IF MarkRaises(ips) THEN 0 ELSE Len(ips)]

\* post_attackers for a request body, as the controller serves it
ServeAttackers(payload) ==
    /\ LET r == post_attackers(attacker_ips, payload)
       IN /\ attacker_ips' = r.attacker_ips
          /\ lastOp' = [op |-> "post_attackers", kind |-> payload.kind,
                        ips |-> payload.ips, pre |-> attacker_ips,
                        status |-> r.status, count |-> r.count]
    /\ UNCHANGED <<datapaths, flow_history, csv_file, observed, processed,
                   skipped, raised, lastFailure, threads>>

\* a request to /ddos/attackers of any client
PostAttackersBody(payload) == ServeAttackers(payload) /\ UNCHANGED topo

\* post_attackers with a JSON body {"ips": ips}
PostAttackers(ips) == PostAttackersBody(Payload("ips_list", ips))

\* a clear that also forgets the flows seen so far
PostClearAttackers_reset ==
    /\ LET r == clear_attackers(attacker_ips)
       IN /\ attacker_ips' = r.attacker_ips
          /\ lastOp' = [op |-> "post_clear_attackers", pre |-> attacker_ips,
                        status |-> 200, count |-> r.count]
    /\ flow_history' = <<>>
    /\ UNCHANGED <<datapaths, csv_file, observed, processed,
                   skipped, raised, lastFailure, threads, topo>>

\* post_clear_attackers, as the controller serves it
ServeClear ==
    /\ LET r == clear_attackers(attacker_ips)
       IN /\ attacker_ips' = r.attacker_ips
          /\ lastOp' = [op |-> "post_clear_attackers", pre |-> attacker_ips,
                        status |-> 200, count |-> r.count]
    /\ UNCHANGED <<datapaths, flow_history, csv_file, observed, processed,
                   skipped, raised, lastFailure, threads>>

\* a request to /ddos/clear of any client
PostClearAttackers == ServeClear /\ UNCHANGED topo

Next ==
    \/ \E dpid \in DPIDs : SwitchFeatures(dpid)
    \/ \E reply \in Replies, current_time \in Times :
            FlowStatsReply(reply.dpid, reply.body, current_time)
    \/ \E ips \in IpLists : PostAttackers(ips)
    \/ PostClearAttackers

Spec == Init /\ [][Next]_vars

\* the administrative interface taken alone
NextAdmin ==
    \/ \E ips \in AdminIpLists : PostAttackers(ips)
    \/ PostClearAttackers

SpecAdmin == Init /\ [][NextAdmin]_vars

\* the administrative interface under arbitrary request bodies
NextRest ==
    \/ \E payload \in Payloads : PostAttackersBody(payload)
    \/ PostClearAttackers

SpecRest == Init /\ [][NextRest]_vars

\* the collector when appends to the file can fail
NextIO ==
    \/ \E dpid \in DPIDs : SwitchFeatures(dpid)
    \/ \E reply \in Replies, current_time \in Times :
        \E fail_at \in 0..Len(reply.body) :
            FlowStatsReplyIO(reply.dpid, reply.body, current_time, fail_at)

SpecIO == Init /\ [][NextIO]_vars

----------------------------------------------------------------------------
(* _monitor and the replies to its requests *)

\* every call hands the processor to the hub
MayYield_any(call) == TRUE

\* The calls that hand the processor to the hub, so that other green threads
\* run before the caller goes on: hub.sleep, and datapath.send_msg when the
\* datapath's send queue is full.  No other call of the application does.
MayYield(call) == call \in {"hub.sleep", "send_msg"}

\* what datapath.send_msg does to its caller
SendOutcomes ==
    {"sent", "raised"} \cup (IF MayYield("send_msg") THEN {"blocked"} ELSE {})

\* a pass of the loop over self.datapaths.values() is under way
InTick(m) == m.pc \in {"iter", "blocked"}

\* a monitor that waits for the replies to its requests
TickReady_waits(m, out) ==
    m.pc = "sleep" /\ \A dpid \in DOMAIN out : out[dpid] = 0

\* hub.sleep(2) returns: nothing but the timer holds the next pass back
TickReady(m, out) == m.pc = "sleep"

\* while True: for dp in self.datapaths.values(): the iterator is created
MonitorTick ==
    /\ running = "hub"
    /\ TickReady(mon, outstanding)
    /\ ticks < MaxTicks
    /\ mon' = [pc |-> "iter", sent |-> <<>>, size |-> Cardinality(datapaths)]
    /\ running' = "monitor"
    /\ ticks' = ticks + 1
    /\ UNCHANGED <<datapaths, flow_history, attacker_ips, csv_file, observed,
                   processed, skipped, raised, lastOp, lastFailure, calls,
                   boot, topo, outstanding, inbox>>

\* the dictionary has the size it had when the iterator was created
SameSize == Cardinality(datapaths) = mon.size

\* the iterator yields the datapath dpid: self._request_stats(dp)
MonitorRequest(dpid, outcome) ==
    /\ running = "monitor"
    /\ mon.pc = "iter"
    /\ SameSize
    /\ dpid \in datapaths \ Range(mon.sent)
    /\ mon' = CASE outcome = "sent" ->
                    [mon EXCEPT !.sent = Append(@, dpid)]
               [] outcome = "blocked" ->
                    [mon EXCEPT !.sent = Append(@, dpid), !.pc = "blocked"]
               [] outcome = "raised" ->
                    \* nothing in _monitor catches: the green thread ends
                    [mon EXCEPT !.pc = "dead"]
    /\ outstanding' = IF outcome = "raised" THEN outstanding
                      ELSE [outstanding EXCEPT ![dpid] = @ + 1]
    /\ running' = IF outcome = "sent" THEN "monitor" ELSE "hub"
    /\ UNCHANGED <<datapaths, flow_history, attacker_ips, csv_file, observed,
                   processed, skipped, raised, lastOp, lastFailure, calls,
                   boot, topo, inbox, ticks>>

\* send_msg returns to the monitor after it blocked
MonitorResume ==
    /\ running = "hub"
    /\ mon.pc = "blocked"
    /\ mon' = [mon EXCEPT !.pc = "iter"]
    /\ running' = "monitor"
    /\ UNCHANGED <<datapaths, flow_history, attacker_ips, csv_file, observed,
                   processed, skipped, raised, lastOp, lastFailure, calls,
                   boot, topo, outstanding, inbox, ticks>>

\* the iterator finds the dictionary changed in size:
\* RuntimeError, which nothing in _monitor catches
MonitorDictChanged ==
    /\ running = "monitor"
    /\ mon.pc = "iter"
    /\ ~SameSize
    /\ mon' = [mon EXCEPT !.pc = "dead"]
    /\ running' = "hub"
    /\ UNCHANGED <<datapaths, flow_history, attacker_ips, csv_file, observed,
                   processed, skipped, raised, lastOp, lastFailure, calls,
                   boot, topo, outstanding, inbox, ticks>>

\* the iterator is exhausted: hub.sleep(2)
MonitorSleep ==
    /\ running = "monitor"
    /\ mon.pc = "iter"
    /\ SameSize
    /\ datapaths \subseteq Range(mon.sent)
    /\ mon' = [mon EXCEPT !.pc = "sleep"]
    /\ running' = "hub"
    /\ UNCHANGED <<datapaths, flow_history, attacker_ips, csv_file, observed,
                   processed, skipped, raised, lastOp, lastFailure, calls,
                   boot, topo, outstanding, inbox, ticks>>

\* switch_features_handler, run by the application's event loop
PollSwitchFeatures(dpid) ==
    /\ running = "hub"
    /\ SwitchFeatures(dpid)

\* the replies a datapath sends to a request
PollReplies ==
    { [dpid |-> 1, body |-> <<TcpEarly>>],
      [dpid |-> 2, body |-> <<MissStat, TcpEarly>>] }

RECURSIVE InboxCounted(_)
\* the records of the delivered replies that are not the table-miss entry
InboxCounted(q) ==
    IF q = <<>> THEN 0 ELSE Counted(Head(q).body) + InboxCounted(Tail(q))

\* a datapath answers one of the requests sent to it, and the reply is put
\* on the application's event queue
ReplyArrives(reply) ==
    /\ running = "hub"
    /\ outstanding[reply.dpid] > 0
    /\ processed + InboxCounted(inbox) + Counted(reply.body) <= MaxRows
    /\ outstanding' = [outstanding EXCEPT ![reply.dpid] = @ - 1]
    /\ inbox' = Append(inbox, reply)
    /\ UNCHANGED <<datapaths, flow_history, attacker_ips, csv_file, observed,
                   processed, skipped, raised, lastOp, lastFailure, calls,
                   boot, topo, running, mon, ticks>>

\* the application's event loop takes the oldest event of its queue
EventLoopTakes ==
    /\ running = "hub"
    /\ inbox # <<>>
    /\ inbox' = Tail(inbox)

\* the event loop calls _flow_stats_reply_handler with the event it took
PollHandleReply(current_time) ==
    /\ EventLoopTakes
    /\ HandleStats(Head(inbox).dpid, Head(inbox).body, current_time, 0)
    /\ UNCHANGED <<running, mon, outstanding, ticks, calls, boot, topo>>

\* the steps of the monitor's green thread while it holds the processor
MonitorRuns ==
    \/ \E dpid \in DPIDs, outcome \in SendOutcomes :
            MonitorRequest(dpid, outcome)
    \/ MonitorDictChanged
    \/ MonitorSleep

NextPoll ==
    \/ \E dpid \in DPIDs : PollSwitchFeatures(dpid)
    \/ MonitorTick
    \/ MonitorRuns
    \/ MonitorResume
    \/ \E reply \in PollReplies : ReplyArrives(reply)
    \/ \E current_time \in Times : PollHandleReply(current_time)

\* A green thread that holds the processor runs on, the timer of hub.sleep
\* expires, and the event loop handles the events of its queue once the
\* processor is free.  Nothing makes a datapath answer.
SpecPoll ==
    /\ Init
    /\ [][NextPoll]_vars
    /\ WF_vars(MonitorRuns)
    /\ WF_vars(MonitorTick)
    /\ WF_inbox(EventLoopTakes)

----------------------------------------------------------------------------
(* The handlers statement by statement, each call in its own green thread *)

\* the context c may execute its next statement: it holds the processor, or
\* it gave it up at a call that yields and the hub resumes it
Holds(c) ==
    \/ running = c
    \/ running = "hub" /\ ctx[c].pc # "idle"

\* who holds the processor after the context c has made the call
After(c, call) == IF MayYield(call) THEN "hub" ELSE c

\* the "ips" lists and the replies of the statement-by-statement handlers
ConcIpLists == {<<HostA>>, <<HostA, HostB>>}
ConcReplies ==
    { [dpid |-> 1, body |-> <<TcpEarly>>],
      [dpid |-> 1, body |-> <<MissStat, TcpLate>>],
      [dpid |-> 2, body |-> <<TcpEarly>>] }

\* the value of time.time() when a reply is handled
ConcTimes == {2}

\* the statement after the mark of ips[k]
MarkPc(ips, k) == IF k > Len(ips) THEN "mark_respond" ELSE "mark_check"

\* post_attackers is called with {"ips": ips}
MarkBegin(c, ips) ==
    /\ running = "hub"
    /\ ctx[c] = Idle
    /\ ctx' = [ctx EXCEPT ![c] =
                [pc |-> MarkPc(ips, 1), ips |-> ips, k |-> 1]]
    /\ running' = After(c, "json.loads")
    /\ UNCHANGED <<datapaths, flow_history, attacker_ips, csv_file, observed,
                   processed, skipped, raised, lastOp, lastFailure,
                   mon, outstanding, inbox, ticks, boot, topo, serial>>

\* mark_attacker: if ip_address not in self.attacker_ips
MarkCheck(c) ==
    /\ Holds(c)
    /\ ctx[c].pc = "mark_check"
    /\ ctx' = [ctx EXCEPT ![c].pc =
                IF ctx[c].ips[ctx[c].k] \notin attacker_ips THEN "mark_add"
                ELSE MarkPc(ctx[c].ips, ctx[c].k + 1),
                ![c].k = IF ctx[c].ips[@] \notin attacker_ips THEN @
                         ELSE @ + 1]
    /\ running' = After(c, "in")
    /\ UNCHANGED <<datapaths, flow_history, attacker_ips, csv_file, observed,
                   processed, skipped, raised, lastOp, lastFailure,
                   mon, outstanding, inbox, ticks, boot, topo, serial>>

\* mark_attacker: self.attacker_ips.add(ip_address); self.logger.info(...)
MarkAdd(c) ==
    /\ Holds(c)
    /\ ctx[c].pc = "mark_add"
    /\ attacker_ips' = attacker_ips \cup {ctx[c].ips[ctx[c].k]}
    /\ ctx' = [ctx EXCEPT ![c].pc = MarkPc(ctx[c].ips, ctx[c].k + 1),
                          ![c].k = @ + 1]
    /\ running' = After(c, "logger.info")
    /\ UNCHANGED <<datapaths, flow_history, csv_file, observed,
                   processed, skipped, raised, lastOp, lastFailure,
                   mon, outstanding, inbox, ticks, boot, topo, serial>>

\* post_attackers returns Response(status=200, ...)
MarkRespond(c) ==
    /\ Holds(c)
    /\ ctx[c].pc = "mark_respond"
    /\ lastOp' = [op |-> "post_attackers", kind |-> "ips_list",
                  ips |-> ctx[c].ips, status |-> 200,
                  count |-> Len(ctx[c].ips)]
    /\ serial' = serial \cup Range(ctx[c].ips)
    /\ ctx' = [ctx EXCEPT ![c] = Idle]
    /\ running' = "hub"
    /\ UNCHANGED <<datapaths, flow_history, attacker_ips, csv_file, observed,
                   processed, skipped, raised, lastFailure,
                   mon, outstanding, inbox, ticks, boot, topo>>

\* post_clear_attackers is called; clear_attackers:
\* count = len(self.attacker_ips)
ClearLen(c) ==
    /\ running = "hub"
    /\ ctx[c] = Idle
    /\ ctx' = [ctx EXCEPT ![c] =
                [pc |-> "clear_clear", count |-> Cardinality(attacker_ips)]]
    /\ running' = After(c, "len")
    /\ UNCHANGED <<datapaths, flow_history, attacker_ips, csv_file, observed,
                   processed, skipped, raised, lastOp, lastFailure,
                   mon, outstanding, inbox, ticks, boot, topo, serial>>

\* clear_attackers: self.attacker_ips.clear(); self.logger.info(...)
ClearClear(c) ==
    /\ Holds(c)
    /\ ctx[c].pc = "clear_clear"
    /\ attacker_ips' = {}
    /\ ctx' = [ctx EXCEPT ![c] =
                [pc |-> "clear_respond", count |-> ctx[c].count,
                 removed |-> attacker_ips]]
    /\ running' = After(c, "logger.info")
    /\ UNCHANGED <<datapaths, flow_history, csv_file, observed,
                   processed, skipped, raised, lastOp, lastFailure,
                   mon, outstanding, inbox, ticks, boot, topo, serial>>

\* clear_attackers returns count; post_clear_attackers returns the Response
ClearRespond(c) ==
    /\ Holds(c)
    /\ ctx[c].pc = "clear_respond"
    /\ lastOp' = [op |-> "post_clear_attackers", status |-> 200,
                  count |-> ctx[c].count, removed |-> ctx[c].removed,
                  serial |-> serial]
    /\ serial' = {}
    /\ ctx' = [ctx EXCEPT ![c] = Idle]
    /\ running' = "hub"
    /\ UNCHANGED <<datapaths, flow_history, attacker_ips, csv_file, observed,
                   processed, skipped, raised, lastFailure,
                   mon, outstanding, inbox, ticks, boot, topo>>

\* _flow_stats_reply_handler is called: body, datapath, current_time
ReplyBegin(c, dpid, body, current_time) ==
    /\ running = "hub"
    /\ ctx[c] = Idle
    /\ dpid \in datapaths
    /\ processed + Counted(body) <= MaxRows
    /\ processed' = processed + Counted(body)
    /\ ctx' = [ctx EXCEPT ![c] =
                [pc |-> "for", dpid |-> dpid, body |-> body, k |-> 1,
                 current_time |-> current_time, start |-> Len(csv_file)]]
    /\ running' = After(c, "time.time")
    /\ UNCHANGED <<datapaths, flow_history, attacker_ips, csv_file, observed,
                   skipped, raised, lastOp, lastFailure,
                   mon, outstanding, inbox, ticks, boot, topo, serial>>

\* for stat in body: if stat.priority == 0: continue;
\* flow_id = ...; prev_stat = self.flow_history.get(flow_id)
ReplyGet(c) ==
    /\ Holds(c)
    /\ ctx[c].pc = "for"
    /\ LET job == ctx[c]
           stat == job.body[job.k]
           flow_id == _generate_flow_id(stat, job.dpid)
       IN IF job.k > Len(job.body)
          THEN /\ ctx' = [ctx EXCEPT ![c] = Idle]
               /\ running' = "hub"
               /\ UNCHANGED skipped
          ELSE IF Skipped(stat)
          THEN /\ ctx' = [ctx EXCEPT ![c].k = @ + 1]
               /\ running' = c
               /\ skipped' = TRUE
          ELSE /\ ctx' = [ctx EXCEPT ![c] =
                        [pc |-> "label", dpid |-> job.dpid,
                         body |-> job.body, k |-> job.k,
                         current_time |-> job.current_time,
                         start |-> job.start, flow_id |-> flow_id,
                         prev_stat |-> Get(flow_history, flow_id, None)]]
               /\ running' = After(c, "flow_history.get")
               /\ UNCHANGED skipped
    /\ UNCHANGED <<datapaths, flow_history, attacker_ips, csv_file, observed,
                   processed, raised, lastOp, lastFailure,
                   mon, outstanding, inbox, ticks, boot, topo, serial>>

\* the metrics, then label = self._label_flow(src_ip)
ReplyLabel(c) ==
    /\ Holds(c)
    /\ ctx[c].pc = "label"
    /\ LET job == ctx[c]
           stat == job.body[job.k]
           src_ip == Get(stat.match, "ipv4_src", "0.0.0.0")
       IN ctx' = [ctx EXCEPT ![c] =
                    [pc |-> "append", dpid |-> job.dpid, body |-> job.body,
                     k |-> job.k, current_time |-> job.current_time,
                     start |-> job.start, flow_id |-> job.flow_id,
                     prev_stat |-> job.prev_stat,
                     label |-> _label_flow(attacker_ips, src_ip),
                     attacker_ips |-> attacker_ips, serial |-> serial]]
    /\ running' = After(c, "_label_flow")
    /\ UNCHANGED <<datapaths, flow_history, attacker_ips, csv_file, observed,
                   processed, skipped, raised, lastOp, lastFailure,
                   mon, outstanding, inbox, ticks, boot, topo, serial>>

\* with open(self.csv_filename, 'a') as f: ... writer.writerow(row)
ReplyAppend(c) ==
    /\ Holds(c)
    /\ ctx[c].pc = "append"
    /\ LET job == ctx[c]
           stat == job.body[job.k]
           m == Metrics(stat, job.prev_stat, job.current_time)
       IN /\ csv_file' = AppendLine(csv_file,
                Row(stat, job.dpid, job.flow_id, m, job.label,
                    job.current_time))
          /\ observed' = Append(observed,
                [stat |-> stat, dpid |-> job.dpid,
                 prev_stat |-> job.prev_stat,
                 current_time |-> job.current_time,
                 attacker_ips |-> job.attacker_ips, start |-> job.start,
                 serial |-> job.serial, flow_id |-> job.flow_id])
    /\ ctx' = [ctx EXCEPT ![c].pc = "put"]
    /\ running' = After(c, "open")
    /\ UNCHANGED <<datapaths, flow_history, attacker_ips,
                   processed, skipped, raised, lastOp, lastFailure,
                   mon, outstanding, inbox, ticks, boot, topo, serial>>

\* self.flow_history[flow_id] = {...}, and on to the next record
ReplyPut(c) ==
    /\ Holds(c)
    /\ ctx[c].pc = "put"
    /\ LET job == ctx[c]
       IN /\ flow_history' = Put(flow_history, job.flow_id,
                Snapshot(job.body[job.k], job.current_time))
          /\ ctx' = [ctx EXCEPT ![c] =
                [pc |-> "for", dpid |-> job.dpid, body |-> job.body,
                 k |-> job.k + 1, current_time |-> job.current_time,
                 start |-> job.start]]
    /\ running' = After(c, "flow_history")
    /\ UNCHANGED <<datapaths, attacker_ips, csv_file, observed,
                   processed, skipped, raised, lastOp, lastFailure,
                   mon, outstanding, inbox, ticks, boot, topo, serial>>

NextConc ==
    \/ \E dpid \in DPIDs : PollSwitchFeatures(dpid)
    \/ \E c \in Contexts :
        \/ \E ips \in ConcIpLists : MarkBegin(c, ips)
        \/ MarkCheck(c)
        \/ MarkAdd(c)
        \/ MarkRespond(c)
        \/ ClearLen(c)
        \/ ClearClear(c)
        \/ ClearRespond(c)
        \/ \E reply \in ConcReplies, current_time \in ConcTimes :
                ReplyBegin(c, reply.dpid, reply.body, current_time)
        \/ ReplyGet(c)
        \/ ReplyLabel(c)
        \/ ReplyAppend(c)
        \/ ReplyPut(c)

SpecConc == Init /\ [][NextConc]_vars

----------------------------------------------------------------------------
(* Properties *)

\* the lines of the file that are rows, and what was read for each
RowIdx == 2..Len(csv_file)
RowAt(i) == csv_file[i]
ObsAt(i) == observed[i - 1]

\* count / duration, or 0 when duration is 0
DurationAverage(count, duration) ==
    IF RatPos(duration) THEN IntDivRat(count, duration) ELSE Zero

\* the record of row i shows a counter reset against the stored snapshot
CounterReset(i) ==
    /\ ObsAt(i).prev_stat # None
    /\ Field(RowAt(i), "packet_count") < ObsAt(i).prev_stat.packet_count

\* C1: a record whose packet_count is lower than the stored one gets the
\* duration-based averages as packet_rate and byte_rate and flow_iat 0, and
\* no row is ever written with a negative packet_rate or byte_rate.
C1_ResetFallsBackToAverage ==
    \A i \in RowIdx :
        /\ CounterReset(i) =>
            /\ Field(RowAt(i), "packet_rate") =
                 DurationAverage(Field(RowAt(i), "packet_count"),
                                 Field(RowAt(i), "flow_duration"))
            /\ Field(RowAt(i), "byte_rate") =
                 DurationAverage(Field(RowAt(i), "byte_count"),
                                 Field(RowAt(i), "flow_duration"))
            /\ Field(RowAt(i), "flow_iat") = Zero
        /\ ~RatNeg(Field(RowAt(i), "packet_rate"))
        /\ ~RatNeg(Field(RowAt(i), "byte_rate"))

\* C2: the label of every row is 1 if and only if the row's source address
\* was in the attacker registry when the record was processed, whatever the
\* rates and counters of the row are.
C2_GroundTruthLabel ==
    \A i \in RowIdx :
        Field(RowAt(i), "label") =
            (IF Field(RowAt(i), "src_ip") \in ObsAt(i).attacker_ips
             THEN 1 ELSE 0)

\* C2 witness: a marked source with packet_rate 0 labelled 1 and an unmarked
\* source with packet_rate 10000 labelled 0
C2_Witness ==
    /\ \E i \in RowIdx :
        /\ Field(RowAt(i), "src_ip") \in ObsAt(i).attacker_ips
        /\ Field(RowAt(i), "packet_rate") = Zero
        /\ Field(RowAt(i), "label") = 1
    /\ \E i \in RowIdx :
        /\ Field(RowAt(i), "src_ip") \notin ObsAt(i).attacker_ips
        /\ Field(RowAt(i), "packet_rate") = Rat(10000, 1)
        /\ Field(RowAt(i), "label") = 0

\* rules 2 to 4 of the heuristic variant
HeuristicRule(row) ==
    \/ RatGt(Field(row, "packet_rate"), 1000)
    \/ /\ RatGt(Field(row, "packet_rate"), 500)
       /\ RatLt(Field(row, "bytes_per_packet"), 100)
    \/ /\ RatGt(Field(row, "packet_rate"), 300)
       /\ Field(row, "packet_count") > 5000

\* the label of the heuristic variant: first matching rule wins
HeuristicLabel(row, registry) ==
    IF Field(row, "src_ip") \in registry THEN 1
    ELSE IF HeuristicRule(row) THEN 1
    ELSE 0

\* C3 as stated: the label is decided by the heuristic rules in their fixed
\* order, so an unmarked source with packet_rate above 1000 is labelled 1.
C3_HeuristicLabel ==
    \A i \in RowIdx :
        Field(RowAt(i), "label") =
            HeuristicLabel(RowAt(i), ObsAt(i).attacker_ips)

\* C3 amended: rules 2 to 4 do not exist; a row whose source address was not
\* in the registry is labelled 0, also when its rates and counters match one
\* of the heuristic rules.
C3_NoHeuristicRule ==
    \A i \in RowIdx :
        Field(RowAt(i), "src_ip") \notin ObsAt(i).attacker_ips
            => Field(RowAt(i), "label") = 0

\* C3 witness: an unmarked source whose row matches rules 2 and 3, labelled 0
C3_Witness ==
    \E i \in RowIdx :
        /\ Field(RowAt(i), "src_ip") \notin ObsAt(i).attacker_ips
        /\ RatGt(Field(RowAt(i), "packet_rate"), 1000)
        /\ RatLt(Field(RowAt(i), "bytes_per_packet"), 100)
        /\ Field(RowAt(i), "label") = 0

\* time.time() of the batch minus the timestamp of the stored snapshot
Elapsed(i) == ObsAt(i).current_time - ObsAt(i).prev_stat.timestamp

\* C4: with a stored snapshot, no counter reset and duration > 0, the rates
\* are the counter deltas over the elapsed time when it is positive and 0
\* otherwise, and flow_iat is the elapsed time.
C4_DeltaRate ==
    \A i \in RowIdx :
        ( /\ ObsAt(i).prev_stat # None
          /\ ~CounterReset(i)
          /\ RatPos(Field(RowAt(i), "flow_duration")) ) =>
            /\ Field(RowAt(i), "packet_rate") =
                 (IF Elapsed(i) > 0
                  THEN Rat(Field(RowAt(i), "packet_count")
                             - ObsAt(i).prev_stat.packet_count, Elapsed(i))
                  ELSE Zero)
            /\ Field(RowAt(i), "byte_rate") =
                 (IF Elapsed(i) > 0
                  THEN Rat(Field(RowAt(i), "byte_count")
                             - ObsAt(i).prev_stat.byte_count, Elapsed(i))
                  ELSE Zero)
            /\ Field(RowAt(i), "flow_iat") = Rat(Elapsed(i), 1)

\* C4 witness: previous {t=0, 100 packets, 10000 bytes}, current {t=2,
\* 300 packets, 30000 bytes}: packet_rate 100 and byte_rate 10000
C4_Witness ==
    \E i \in RowIdx :
        /\ ObsAt(i).prev_stat =
             [timestamp |-> 0, packet_count |-> 100, byte_count |-> 10000]
        /\ ObsAt(i).current_time = 2
        /\ Field(RowAt(i), "packet_count") = 300
        /\ Field(RowAt(i), "byte_count") = 30000
        /\ Field(RowAt(i), "packet_rate") = Rat(100, 1)
        /\ Field(RowAt(i), "byte_rate") = Rat(10000, 1)
        /\ Field(RowAt(i), "flow_iat") = Rat(2, 1)

\* C5: no division of the metric computation fails; without stored history
\* the rates are count / duration when duration > 0 and 0 when it is 0, with
\* flow_iat 0; bytes_per_packet is byte_count / packet_count when
\* packet_count > 0 and 0 when it is 0.
C5_DivisionGuards ==
    /\ ~raised
    /\ Len(observed) = processed
    /\ \A i \in RowIdx :
        /\ ObsAt(i).prev_stat = None =>
            /\ Field(RowAt(i), "packet_rate") =
                 DurationAverage(Field(RowAt(i), "packet_count"),
                                 Field(RowAt(i), "flow_duration"))
            /\ Field(RowAt(i), "byte_rate") =
                 DurationAverage(Field(RowAt(i), "byte_count"),
                                 Field(RowAt(i), "flow_duration"))
            /\ Field(RowAt(i), "flow_iat") = Zero
        /\ Field(RowAt(i), "bytes_per_packet") =
             (IF Field(RowAt(i), "packet_count") > 0
              THEN Rat(Field(RowAt(i), "byte_count"),
                       Field(RowAt(i), "packet_count"))
              ELSE Zero)

\* C5 witness: a first observation with duration 0 and packet_count 0, and a
\* first observation with a positive duration
C5_Witness ==
    /\ \E i \in RowIdx :
        /\ ObsAt(i).prev_stat = None
        /\ Field(RowAt(i), "flow_duration") = Zero
        /\ Field(RowAt(i), "packet_count") = 0
        /\ Field(RowAt(i), "packet_rate") = Zero
        /\ Field(RowAt(i), "bytes_per_packet") = Zero
    /\ \E i \in RowIdx :
        /\ ObsAt(i).prev_stat = None
        /\ RatPos(Field(RowAt(i), "flow_duration"))
        /\ RatPos(Field(RowAt(i), "packet_rate"))

\* the six components of the flow identity of row i, absent match fields
\* replaced by their defaults
KeyComponents(i) ==
    LET match == ObsAt(i).stat.match
    IN << ObsAt(i).dpid,
          Get(match, "ipv4_src", NoAddress),
          Get(match, "ipv4_dst", NoAddress),
          Get(match, "tcp_src", Get(match, "udp_src", 0)),
          Get(match, "tcp_dst", Get(match, "udp_dst", 0)),
          Get(match, "ip_proto", 0) >>

\* C6: two records get equal flow ids if and only if datapath id, source
\* and destination address, source and destination port and protocol are
\* all equal.
C6_FlowIdentity ==
    \A i, j \in RowIdx :
        (Field(RowAt(i), "flow_id") = Field(RowAt(j), "flow_id"))
            <=> (KeyComponents(i) = KeyComponents(j))

\* C6 witness: the same match reported by two datapaths, under two flow ids
C6_Witness ==
    \E i, j \in RowIdx :
        /\ ObsAt(i).stat.match = ObsAt(j).stat.match
        /\ ObsAt(i).dpid # ObsAt(j).dpid
        /\ Field(RowAt(i), "flow_id") # Field(RowAt(j), "flow_id")

\* the fields of a row that are copies of the record, by header name
Copied == [duration_sec |-> "duration_sec", duration_nsec |-> "duration_nsec",
           idle_timeout |-> "idle_timeout", hard_timeout |-> "hard_timeout",
           priority |-> "priority", packet_count |-> "packet_count",
           byte_count |-> "byte_count", packets_per_flow |-> "packet_count",
           bytes_per_flow |-> "byte_count"]

\* row i holds, under every header name, the value that name stands for
RowConforms(i) ==
    LET row == RowAt(i)
        stat == ObsAt(i).stat
        key == KeyComponents(i)
    IN /\ Len(row) = Len(headers)
       /\ \A name \in DOMAIN Copied : Field(row, name) = stat[Copied[name]]
       /\ Field(row, "datapath_id") = key[1]
       /\ Field(row, "src_ip") = key[2]
       /\ Field(row, "dst_ip") = key[3]
       /\ Field(row, "src_port") = key[4]
       /\ Field(row, "dst_port") = key[5]
       /\ Field(row, "protocol") = key[6]
       /\ Field(row, "flow_id") \in STRING
       /\ Field(row, "timestamp") \in STRING
       /\ Field(row, "flow_duration") = Duration(stat)
       /\ Field(row, "active_time") = Duration(stat)
       /\ Field(row, "flow_speed") = Field(row, "packet_rate")
       /\ \A name \in {"packet_rate", "byte_rate", "bytes_per_packet",
                       "flow_iat"} : DOMAIN Field(row, name) = {"n", "d"}
       /\ Field(row, "label") \in {0, 1}

\* C7: the file is the header line followed by one row per processed record
\* whose priority is not 0, and every row has the 25 fields of the header in
\* the header's order.
C7_SchemaIntegrity ==
    /\ Len(headers) = 25
    /\ csv_file[1] = headers
    /\ Len(csv_file) = 1 + processed
    /\ \A i \in RowIdx : RowConforms(i)

\* C7 witness: two records processed, three lines in the file
C7_Witness ==
    /\ processed = 2
    /\ Len(csv_file) = 3
    /\ skipped

\* C8: no row has priority 0, table-miss records leave no row and no history
\* entry behind.
C8_TableMissExcluded ==
    /\ \A i \in RowIdx :
        /\ Field(RowAt(i), "priority") # 0
        /\ ObsAt(i).stat.priority # 0
    /\ Len(csv_file) - 1 = processed
    /\ DOMAIN flow_history = {Field(RowAt(i), "flow_id") : i \in RowIdx}

\* C8 witness: a table-miss record has been processed, and neither a row nor
\* a history entry exists
C8_Witness ==
    /\ skipped
    /\ Len(csv_file) = 1
    /\ DOMAIN flow_history = {}

\* C9: marking addresses that are all marked already leaves the registry as
\* it was, size included; marking an address twice gives what marking it
\* once gives.
C9_MarkIdempotent ==
    lastOp.op = "post_attackers" =>
        /\ Range(lastOp.ips) \subseteq attacker_ips
        /\ Range(lastOp.ips) \subseteq lastOp.pre =>
            /\ attacker_ips = lastOp.pre
            /\ Cardinality(attacker_ips) = Cardinality(lastOp.pre)
        /\ (Len(lastOp.ips) = 2 /\ lastOp.ips[1] = lastOp.ips[2]) =>
            /\ attacker_ips = lastOp.pre \cup {lastOp.ips[1]}
            /\ Cardinality(attacker_ips) =
                 Cardinality(lastOp.pre)
                    + (IF lastOp.ips[1] \in lastOp.pre THEN 0 ELSE 1)

\* C9 witness: the second of two requests that mark the same address
C9_Witness ==
    /\ lastOp.op = "post_attackers"
    /\ lastOp.ips = <<HostA>>
    /\ lastOp.pre = {HostA}
    /\ Cardinality(attacker_ips) = 1

\* C10: the clear request reports the number of addresses the registry held
\* before it, and leaves a registry that contains no address.
C10_ClearSemantics ==
    lastOp.op = "post_clear_attackers" =>
        /\ lastOp.status = 200
        /\ lastOp.count = Cardinality(lastOp.pre)
        /\ attacker_ips = {}
        /\ \A a \in {HostA, HostB, HostC, NoAddress} :
                _label_flow(attacker_ips, a) = 0

\* C10 witness: three distinct addresses marked, then cleared: 3 reported
C10_Witness ==
    /\ lastOp.op = "post_clear_attackers"
    /\ lastOp.pre = {HostA, HostB, HostC}
    /\ lastOp.count = 3
    /\ attacker_ips = {}

\* the request body is a list of addresses
WellFormed(op) ==
    /\ op.kind = "ips_list"
    /\ Range(op.ips) \subseteq Addresses

\* C11: a request with a well-formed list of addresses succeeds, leaves the
\* registry equal to its previous contents united with the listed
\* addresses, and reports as its count the number of addresses it marked.
C11_MarkAttackers ==
    (lastOp.op = "post_attackers" /\ WellFormed(lastOp)) =>
        /\ lastOp.status = 200
        /\ attacker_ips = lastOp.pre \cup Range(lastOp.ips)
        /\ lastOp.count = Cardinality(Range(lastOp.ips))

\* C12: a request whose body is not a well-formed list of addresses is
\* answered with a client error (4xx) and leaves the registry as it was.
C12_MalformedRejected ==
    (lastOp.op = "post_attackers" /\ ~WellFormed(lastOp)) =>
        /\ lastOp.status \in 400..499
        /\ attacker_ips = lastOp.pre


\* C17: when the append of one record's row fails, only that row is missing:
\* the handler still writes the row of every other record of the batch that
\* is not the table-miss entry, and leaves the earlier lines as they were.
C17_RowFailureSkipsOneRow ==
    [][lastFailure' # lastFailure =>
        /\ Len(csv_file') - Len(csv_file) = Counted(lastFailure'.body) - 1
        /\ SubSeq(csv_file', 1, Len(csv_file)) = csv_file]_vars

\* C18: the monitor loop never ends: neither a send that fails nor a
\* datapath that connects during a pass over the datapath table stops it.
C18_MonitorNeverEnds == mon.pc # "dead"

\* the requests a pass has sent to the datapath dpid
RequestsTo(dpid) == Cardinality({k \in DOMAIN mon.sent : mon.sent[k] = dpid})

\* C19: a pass of the monitor loop that is over has sent exactly one request
\* to every datapath registered by switch_features_handler, and none to
\* any other.
C19_OneRequestPerDatapath ==
    [][(InTick(mon) /\ ~InTick(mon')) =>
        /\ \A dpid \in datapaths' : RequestsTo(dpid)' = 1
        /\ Range(mon.sent)' \subseteq datapaths']_vars

\* C20: the next pass of the monitor starts whatever requests are
\* unanswered, a delivered reply is handled whatever else is awaited, and
\* every delivered reply is handled in the end.
C20_NeverBlocksOnReplies ==
    /\ \A n \in 0..(MaxTicks - 1) :
            (mon.pc = "sleep" /\ ticks = n) ~> (ticks = n + 1)
    /\ (inbox # <<>>) ~> (inbox = <<>>)

\* datapath 1 has answered none of the two requests sent to it, a second
\* pass has begun all the same, and a reply of datapath 2 has been handled
C20_Witness ==
    /\ outstanding[1] = MaxTicks
    /\ ticks = MaxTicks
    /\ Len(observed) > 0
    /\ observed[1].dpid = 2

\* no request of the REST interface is under way
NoCall ==
    \A c \in Contexts :
        ctx[c].pc \notin {"mark_check", "mark_add", "mark_respond",
                          "clear_clear", "clear_respond"}

\* C13: marks and clears lose no update: once the requests under way are
\* over the registry is what the completed requests give when applied one
\* after the other, and the count a clear returns is the number of addresses
\* it removed, which is the size of the registry those requests had built.
C13_NoLostUpdates ==
    /\ NoCall => attacker_ips = serial
    /\ lastOp.op = "post_clear_attackers" =>
        /\ lastOp.count = Cardinality(lastOp.removed)
        /\ lastOp.count = Cardinality(lastOp.serial)

\* a label was read from the registry {HostA, HostB}, a clear and then a
\* mark of HostA have completed since, and HostA is in the registry
C13_Witness ==
    /\ NoCall
    /\ Len(observed) > 0
    /\ observed[1].attacker_ips = {HostA, HostB}
    /\ lastOp.op = "post_attackers"
    /\ lastOp.ips = <<HostA>>
    /\ attacker_ips = {HostA}

\* C14: every label is decided on a registry that holds the addresses of
\* the completed requests and nothing of a request still under way.
C14_NoPartialRegistryRead ==
    /\ \A i \in DOMAIN observed :
            observed[i].attacker_ips = observed[i].serial
    /\ \A c \in Contexts :
            ctx[c].pc \in {"append", "put"} =>
                ctx[c].attacker_ips = ctx[c].serial

\* one label decided before a request marking HostA and HostB, the next
\* one after it
C14_Witness ==
    /\ Len(observed) = 2
    /\ observed[1].attacker_ips = {}
    /\ observed[2].attacker_ips = {HostA, HostB}
    /\ Field(RowAt(3), "label") = 1

\* the row the handler builds from what it read for a record
RowOf(o) ==
    LET flow_id == _generate_flow_id(o.stat, o.dpid)
        src_ip == Get(o.stat.match, "ipv4_src", "0.0.0.0")
    IN Row(o.stat, o.dpid, flow_id,
           Metrics(o.stat, o.prev_stat, o.current_time),
           _label_flow(o.attacker_ips, src_ip), o.current_time)

\* C15: the file is the header line, once, followed by one whole row per
\* record handled, each the row of that one record, whichever datapaths
\* the replies come from.
C15_WholeRowsOneHeader ==
    /\ Len(csv_file) = 1 + Len(observed)
    /\ csv_file[1] = headers
    /\ \A i \in RowIdx :
        /\ RowAt(i) # headers
        /\ Len(RowAt(i)) = Len(headers)
        /\ RowAt(i) = RowOf(ObsAt(i))

\* rows of replies of both datapaths, handled after both had connected
C15_Witness ==
    /\ datapaths = {1, 2}
    /\ Len(csv_file) = 3
    /\ Field(RowAt(2), "datapath_id") = 2
    /\ Field(RowAt(3), "datapath_id") = 1

\* the rows of the log that have the flow id of row i, and those before it
SameFlow(i) ==
    {j \in DOMAIN observed : observed[j].flow_id = observed[i].flow_id}
Earlier(i) == {j \in SameFlow(i) : j < i}

\* the snapshot stored for the last of the rows js
LastSnapshot(js) ==
    LET j == CHOOSE x \in js : \A y \in js : y <= x
    IN Snapshot(observed[j].stat, observed[j].current_time)

\* no handler is under way
Quiet == \A c \in Contexts : ctx[c] = Idle

\* C16: every record is processed against the snapshot stored by the
\* previous processing of its flow identity (none for the first one), and
\* the history holds the snapshot of the last one: the rows and the history
\* are those of processing the records one after the other.
C16_HistoryReadWriteAtomic ==
    /\ \A i \in DOMAIN observed :
            observed[i].prev_stat =
                IF Earlier(i) = {} THEN None ELSE LastSnapshot(Earlier(i))
    /\ Quiet =>
            \A i \in DOMAIN observed :
                flow_history[observed[i].flow_id] = LastSnapshot(SameFlow(i))

\* one flow identity processed twice, the second time against the snapshot
\* of the first
C16_Witness ==
    /\ Len(observed) = 2
    /\ Earlier(2) = {1}
    /\ observed[2].prev_stat = Snapshot(observed[1].stat,
                                        observed[1].current_time)
    /\ observed[1].stat # observed[2].stat

----------------------------------------------------------------------------
(* The flow history and the file over time *)

\* the rows a step appends, as indices of observed'
Appended == (Len(observed) + 1)..Len(observed')

\* the rows a step appends under the flow identity k
AppendedFor(k) == {j \in Appended : Field(csv_file'[j + 1], "flow_id") = k}

\* C21: a step that processes records leaves, under the key of each of
\* them, exactly the time of the batch and the packet and byte count of the
\* last record processed under that key, whatever the entry held before;
\* every other key keeps its entry, and no key is ever removed.
C21_LatestSnapshot ==
    [][/\ DOMAIN flow_history \subseteq DOMAIN flow_history'
       /\ \A j \in Appended :
            Field(csv_file'[j + 1], "flow_id") \in DOMAIN flow_history'
       /\ \A k \in DOMAIN flow_history' :
            IF AppendedFor(k) = {}
            THEN k \in DOMAIN flow_history
                    /\ flow_history'[k] = flow_history[k]
            ELSE LET j == CHOOSE x \in AppendedFor(k) :
                                \A y \in AppendedFor(k) : y <= x
                 IN flow_history'[k] =
                        [timestamp |-> observed'[j].current_time,
                         packet_count |-> observed'[j].stat.packet_count,
                         byte_count |-> observed'[j].stat.byte_count]]_vars

\* C21 witness: a flow whose counters went down between two batches, the
\* history holding the lower counts of the later batch, beside the entry of
\* another flow
C21_Witness ==
    \E i, j \in RowIdx :
        /\ i < j
        /\ Field(RowAt(i), "flow_id") = Field(RowAt(j), "flow_id")
        /\ ObsAt(i).start < ObsAt(j).start
        /\ Field(RowAt(j), "packet_count") < Field(RowAt(i), "packet_count")
        /\ flow_history[Field(RowAt(j), "flow_id")] =
                [timestamp |-> ObsAt(j).current_time,
                 packet_count |-> Field(RowAt(j), "packet_count"),
                 byte_count |-> Field(RowAt(j), "byte_count")]

\* C22: in every step the lines the file held are the first lines of the
\* file afterwards, unchanged: rows are only added at the end, and a row
\* keeps its label whatever is marked or cleared later.
C22_AppendOnly ==
    [][/\ Len(csv_file) <= Len(csv_file')
       /\ SubSeq(csv_file', 1, Len(csv_file)) = csv_file]_vars

\* C22 witness: a row labelled 0 whose source was marked afterwards, and a
\* second row written behind it under label 1
C22_Witness ==
    /\ Len(csv_file) = 3
    /\ Field(RowAt(2), "label") = 0
    /\ Field(RowAt(3), "label") = 1
    /\ Field(RowAt(2), "src_ip") = Field(RowAt(3), "src_ip")
    /\ ObsAt(2).attacker_ips = {}
    /\ Field(RowAt(2), "src_ip") \in attacker_ips

----------------------------------------------------------------------------
(* Records without IP match fields *)

\* the match fields the handler reads that the record of row i lacks
Lacking(i) ==
    {"ipv4_src", "ipv4_dst", "tcp_src", "udp_src", "tcp_dst", "udp_dst",
     "ip_proto"} \ DOMAIN ObsAt(i).stat.match

\* the flow id spelled from the fields of a row
FlowIdOfRow(row) ==
    ToString(Field(row, "datapath_id")) \o "_" \o Field(row, "src_ip")
        \o "_" \o Field(row, "dst_ip")
        \o "_" \o ToString(Field(row, "src_port"))
        \o "_" \o ToString(Field(row, "dst_port"))
        \o "_" \o ToString(Field(row, "protocol"))

\* C23: no record fails for a match field it lacks: every record that is
\* not a table-miss entry has its one row, an absent address reads
\* "0.0.0.0", an absent port or protocol reads 0, and the flow id of the
\* row is made of the very address, port and protocol fields of the row.
C23_MissingFieldsDefault ==
    /\ ~raised
    /\ Len(csv_file) - 1 = processed
    /\ \A i \in RowIdx :
        /\ "ipv4_src" \in Lacking(i) => Field(RowAt(i), "src_ip") = "0.0.0.0"
        /\ "ipv4_dst" \in Lacking(i) => Field(RowAt(i), "dst_ip") = "0.0.0.0"
        /\ {"tcp_src", "udp_src"} \subseteq Lacking(i) =>
                Field(RowAt(i), "src_port") = 0
        /\ {"tcp_dst", "udp_dst"} \subseteq Lacking(i) =>
                Field(RowAt(i), "dst_port") = 0
        /\ "ip_proto" \in Lacking(i) => Field(RowAt(i), "protocol") = 0
        /\ Field(RowAt(i), "flow_id") = FlowIdOfRow(RowAt(i))

\* C23 witness: the row of a rule matched on Ethernet addresses only, and
\* the row of an ICMP rule, which has addresses and no ports
C23_Witness ==
    /\ \E i \in RowIdx :
        /\ ObsAt(i).stat.match = L2Match
        /\ Field(RowAt(i), "flow_id") = "1_0.0.0.0_0.0.0.0_0_0_0"
    /\ \E i \in RowIdx :
        /\ ObsAt(i).stat.match = IcmpMatch
        /\ Field(RowAt(i), "flow_id") = "1_10.0.0.1_10.0.0.2_0_0_1"

----------------------------------------------------------------------------
(* Construction of the application *)

\* the process before SDNDDoSCollector.__init__ has run: no attribute
\* exists yet and no file; the values below stand for "not there"
InitBoot ==
    /\ datapaths = {}
    /\ flow_history = <<>>
    /\ attacker_ips = {}
    /\ csv_file = <<>>
    /\ observed = <<>>
    /\ processed = 0
    /\ skipped = FALSE
    /\ raised = FALSE
    /\ lastOp = NoOp
    /\ lastFailure = NoOp
    /\ running = "hub"
    /\ mon = [pc |-> "sleep", sent |-> <<>>, size |-> 0]
    /\ outstanding = [dpid \in DPIDs |-> 0]
    /\ inbox = <<>>
    /\ ticks = 0
    /\ ctx = [c \in Contexts |-> Idle]
    /\ serial = {}
    /\ boot = [pc |-> "init", at |-> 1, made |-> {}]
    /\ topo = TopoIdle

\* One statement of __init__.  init_csv opens the file with mode 'w' and
\* writes the header line; when open() fails (ok is FALSE) the OSError
\* leaves __init__, which has no try/except, and the application is not
\* instantiated.
InitStatement(ok) ==
    /\ boot.pc = "init"
    /\ LET what == InitOrder[boot.at]
       IN IF what = "init_csv" /\ ~ok
          THEN /\ boot' = [boot EXCEPT !.pc = "aborted"]
               /\ UNCHANGED csv_file
          ELSE /\ boot' = [pc |-> IF boot.at = Len(InitOrder)
                                  THEN "run" ELSE "init",
                           at |-> boot.at + 1,
                           made |-> boot.made \cup {what}]
               /\ csv_file' = IF what = "init_csv" THEN <<headers>>
                              ELSE csv_file
    /\ UNCHANGED <<datapaths, flow_history, attacker_ips, observed,
                   processed, skipped, raised, lastOp, lastFailure, running,
                   mon, outstanding, inbox, ticks, calls, topo>>

\* __init__ has returned: the event loop of the application, the green
\* thread of hub.spawn and the WSGI server get the processor only then,
\* since no statement of __init__ yields
Started == boot.pc = "run"

\* the application from the start of the process on: construction, then
\* the monitor, the datapaths and the administrative interface
NextBoot ==
    \/ \E ok \in BOOLEAN : InitStatement(ok)
    \/ Started /\ NextPoll
    \/ Started /\ running = "hub" /\ \E ips \in IpLists : PostAttackers(ips)
    \/ Started /\ running = "hub" /\ PostClearAttackers

SpecBoot == InitBoot /\ [][NextBoot]_vars

\* the attributes the handlers of the administrative interface and of the
\* replies read
HandlerState == {"datapaths", "flow_history", "attacker_ips"}

\* C24: a request to the administrative interface can be routed, and a
\* reply handled, only when the registry and the flow history exist; every
\* mark and clear then answers 200, whatever has been polled or handled
\* before, and a clear of an empty registry reports 0 and leaves it empty.
C24_AdminAlwaysSafe ==
    /\ "register" \in boot.made => HandlerState \subseteq boot.made
    /\ Started => HandlerState \cup {"init_csv"} \subseteq boot.made
    /\ lastOp.op = "post_attackers" =>
            /\ lastOp.status = 200
            /\ Range(lastOp.ips) \subseteq attacker_ips
    /\ lastOp.op = "post_clear_attackers" =>
            /\ lastOp.status = 200
            /\ attacker_ips = {}
            /\ lastOp.pre = {} => lastOp.count = 0

\* C24 witness: the registry cleared while empty, before any datapath has
\* connected and before the first pass of the monitor
C24_Witness ==
    /\ lastOp.op = "post_clear_attackers"
    /\ lastOp.pre = {}
    /\ lastOp.count = 0
    /\ attacker_ips = {}
    /\ datapaths = {}
    /\ ticks = 0
    /\ processed = 0

\* C26: when the file cannot be created, __init__ ends there: the monitor
\* has not been spawned and the REST interface has not been registered,
\* and no request is sent, no row written and no call served afterwards.
C26_InitAbortsWithoutFile ==
    boot.pc = "aborted" =>
        /\ "monitor_thread" \notin boot.made
        /\ "register" \notin boot.made
        /\ csv_file = <<>>
        /\ ticks = 0
        /\ mon.sent = <<>>
        /\ \A dpid \in DPIDs : outstanding[dpid] = 0
        /\ lastOp = NoOp
        /\ processed = 0

\* C26 witness: open() has failed in init_csv, after the tables were made
C26_Witness ==
    /\ boot.pc = "aborted"
    /\ InitOrder[boot.at] = "init_csv"
    /\ {"datapaths", "flow_history"} \subseteq boot.made

\* C25: a step that is a tick, a stats request, the arrival or the
\* processing of a reply, or a registration of a datapath leaves the
\* registry as it is; the registry changes only in a step of the
\* administrative interface, and such a step leaves the flow history, the
\* datapath table and the file as they are.
C25_FrameConditions ==
    [][/\ (\/ ticks' # ticks
           \/ mon' # mon
           \/ outstanding' # outstanding
           \/ inbox' # inbox
           \/ datapaths' # datapaths
           \/ processed' # processed
           \/ observed' # observed
           \/ csv_file' # csv_file
           \/ flow_history' # flow_history) => attacker_ips' = attacker_ips
       /\ attacker_ips' # attacker_ips => lastOp' # lastOp
       /\ lastOp' # lastOp =>
            /\ flow_history' = flow_history
            /\ datapaths' = datapaths
            /\ csv_file' = csv_file]_vars

\* C25 witness: addresses marked, then a pass of the monitor and a reply
\* processed under that registry, which is still what the mark left; and a
\* flow history that a later clear has left alone
C25_Witness ==
    /\ lastOp.op = "post_clear_attackers"
    /\ lastOp.pre = {HostA}
    /\ attacker_ips = {}
    /\ ticks >= 1
    /\ Len(csv_file) = 2
    /\ ObsAt(2).attacker_ips = {HostA}
    /\ DOMAIN flow_history = {Field(RowAt(2), "flow_id")}

----------------------------------------------------------------------------
(* Rows and history entries *)

\* the rows written under the flow identity k
RowsOf(k) == {i \in RowIdx : Field(RowAt(i), "flow_id") = k}

\* the last of them
LastRowOf(k) == CHOOSE i \in RowsOf(k) : \A j \in RowsOf(k) : j <= i

\* C27: the history is read before the row of a record is appended and
\* written after it: a flow identity has a history entry exactly when a
\* row with its flow id is in the file, the entry holds the packet and
\* byte count of the last such row, and the first row of a flow identity
\* was computed without a stored snapshot; all of it also when an append
\* has failed.
C27_RowThenHistory ==
    /\ \A k \in DOMAIN flow_history : RowsOf(k) # {}
    /\ \A i \in RowIdx :
        LET k == Field(RowAt(i), "flow_id")
        IN /\ k \in DOMAIN flow_history
           /\ flow_history[k].packet_count =
                    Field(RowAt(LastRowOf(k)), "packet_count")
           /\ flow_history[k].byte_count =
                    Field(RowAt(LastRowOf(k)), "byte_count")
           /\ (\A j \in RowsOf(k) : i <= j) => ObsAt(i).prev_stat = None

\* C27 witness: the append of the row of one flow has failed and the flow
\* has neither a row nor an entry, beside a flow that has its row and the
\* entry with the counts of the row
C27_Witness ==
    /\ lastFailure # NoOp
    /\ _generate_flow_id(lastFailure.body[lastFailure.fail_at],
                         lastFailure.dpid) \notin DOMAIN flow_history
    /\ Len(csv_file) = 2
    /\ DOMAIN flow_history = {Field(RowAt(2), "flow_id")}
    /\ flow_history[Field(RowAt(2), "flow_id")].packet_count =
            Field(RowAt(2), "packet_count")

----------------------------------------------------------------------------
(* Several rules of one flow identity in one reply *)

\* the rule of the opposite direction, as _packet_in_handler installs it
\* for a frame that is not IPv4
L2BackMatch == [in_port |-> 2, eth_dst |-> "00:00:00:00:00:01",
                eth_src |-> "00:00:00:00:00:02"]

L2Back == FlowStat(1, L2BackMatch, 0, 500000000, 10, 30, 40, 2000)

\* the replies of datapaths that hold rules without IP match fields
L2Replies == {
    [dpid |-> 1, body |-> <<L2Busy>>],
    [dpid |-> 1, body |-> <<L2Back>>],
    [dpid |-> 1, body |-> <<MissStat, L2Busy, L2Back>>],
    [dpid |-> 2, body |-> <<L2Back, L2Busy>>],
    [dpid |-> 2, body |-> <<L2Busy>>],
    [dpid |-> 2, body |-> <<L2Back>>],
    [dpid |-> 2, body |-> <<MissStat>>] }

NextL2 ==
    \/ \E dpid \in DPIDs : SwitchFeatures(dpid)
    \/ \E reply \in L2Replies, current_time \in Times :
            FlowStatsReply(reply.dpid, reply.body, current_time)

SpecL2 == Init /\ [][NextL2]_vars

\* C28: the snapshot a record is computed against was stored by an earlier
\* reply, never by a record of the reply the record belongs to.
C28_PreviousFromEarlierBatch ==
    \A i \in RowIdx :
        ObsAt(i).prev_stat # None =>
            \A j \in RowIdx :
                (j < i /\ Field(RowAt(j), "flow_id")
                            = Field(RowAt(i), "flow_id"))
                    => ObsAt(j).start < ObsAt(i).start

----------------------------------------------------------------------------
(* run_topology of the traffic script and the controller *)

\* a run that starts the attack before it tells the controller
TryBlock_attack_first ==
    <<"net.start", "normal_traffic", "attack_traffic", "notify_mark",
      "wait">>

\* the statements of the try block of run_topology: net.start(), the
\* choice of the attackers and generate_normal_traffic,
\* notify_controller(clear=False), generate_attack_traffic, the sleeps
TryBlock ==
    <<"net.start", "normal_traffic", "notify_mark", "attack_traffic",
      "wait">>

\* the statements of its finally block
FinallyBlock == <<"notify_clear", "net.stop">>

\* the attackers' addresses of a run: random.sample(hosts, num_attackers)
AttackerLists == {<<HostA>>, <<HostA, HostB>>}

\* What a statement can do.  notify_controller catches every Exception of
\* requests.post and returns: the controller has served the request and
\* answered ("acked"), or has not been reached ("refused").
Outcomes(stmt) ==
    IF stmt \in {"notify_mark", "notify_clear"} THEN {"acked", "refused"}
    ELSE {"ok", "raises"}

\* the registry as the runs before this one have left it
Left ==
    IF topo.clear = "acked" THEN "clean"
    ELSE IF topo.mark = "acked" THEN "marked"
    ELSE topo.prior

\* run_topology is called: without hping3 it returns at once, else it
\* builds the network and enters the try block
TopoBegin(hping3) ==
    /\ topo.pc = "idle"
    /\ topo.run < MaxRuns
    /\ topo' = IF hping3
               THEN [pc |-> "try", at |-> 1, run |-> topo.run + 1,
                     started |-> FALSE, exc |-> FALSE, mark |-> "none",
                     attack |-> FALSE, clear |-> "none", stopped |-> FALSE,
                     prior |-> Left]
               ELSE [topo EXCEPT !.run = topo.run + 1]
    /\ UNCHANGED <<datapaths, flow_history, attacker_ips, csv_file, observed,
                   processed, skipped, raised, lastOp, lastFailure, threads>>

\* where the run goes on after the statement at position at of the try
\* block: an exception, or the end of the block, enters the finally block
AfterTry(t, outcome) ==
    IF outcome = "raises" THEN [t EXCEPT !.pc = "finally", !.at = 1,
                                         !.exc = TRUE]
    ELSE IF t.at = Len(TryBlock) THEN [t EXCEPT !.pc = "finally", !.at = 1]
    ELSE [t EXCEPT !.at = t.at + 1]

\* one statement of the try block
TopoTry(outcome, ips) ==
    /\ topo.pc = "try"
    /\ LET stmt == TryBlock[topo.at]
       IN /\ outcome \in Outcomes(stmt)
          /\ topo' = AfterTry(
                CASE stmt = "net.start" -> [topo EXCEPT !.started = TRUE]
                  [] stmt = "notify_mark" ->
                        [topo EXCEPT !.mark = IF outcome = "acked"
                                              THEN "acked" ELSE "sent"]
                  [] stmt = "attack_traffic" -> [topo EXCEPT !.attack = TRUE]
                  [] OTHER -> topo,
                outcome)
          /\ IF stmt = "notify_mark" /\ outcome = "acked"
             THEN ServeAttackers(Payload("ips_list", ips))
             ELSE UNCHANGED <<datapaths, flow_history, attacker_ips, csv_file,
                              observed, processed, skipped, raised, lastOp,
                              lastFailure, threads>>

\* one statement of the finally block
TopoFinally(outcome) ==
    /\ topo.pc = "finally"
    /\ LET stmt == FinallyBlock[topo.at]
       IN /\ outcome \in Outcomes(stmt)
          /\ topo' =
                IF stmt = "notify_clear"
                THEN [topo EXCEPT !.at = topo.at + 1,
                                  !.clear = IF outcome = "acked"
                                            THEN "acked" ELSE "sent"]
                ELSE [topo EXCEPT !.pc = "idle", !.at = 0, !.stopped = TRUE]
          /\ IF stmt = "notify_clear" /\ outcome = "acked"
             THEN ServeClear
             ELSE UNCHANGED <<datapaths, flow_history, attacker_ips, csv_file,
                              observed, processed, skipped, raised, lastOp,
                              lastFailure, threads>>

\* the replies handled while the script runs
TopoReplies == {
    [dpid |-> 1, body |-> <<TcpEarly>>],
    [dpid |-> 1, body |-> <<TcpLate>>] }

\* the script, its requests served by the controller, and the controller
\* handling the replies of a datapath meanwhile
NextTopo ==
    \/ \E hping3 \in BOOLEAN : TopoBegin(hping3)
    \/ \E outcome \in {"ok", "raises", "acked", "refused"},
          ips \in AttackerLists : TopoTry(outcome, ips)
    \/ \E outcome \in {"ok", "raises", "acked", "refused"} :
            TopoFinally(outcome)
    \/ \E dpid \in {1} : SwitchFeatures(dpid)
    \/ \E reply \in TopoReplies, current_time \in Times :
            FlowStatsReply(reply.dpid, reply.body, current_time)

SpecTopo == Init /\ [][NextTopo]_vars

\* every request the controller has been sent so far was acknowledged, and
\* the registry has no mark that is not cleared yet
Clean ==
    /\ topo.prior = "clean"
    /\ topo.mark # "sent" /\ topo.clear # "sent"
    /\ topo.mark = "acked" => topo.clear = "acked"

\* C29: attack traffic is started only after the attackers' addresses have
\* been sent to the controller; a run that has attempted net.start() sends
\* the clear request before it stops the network and before it ends,
\* whether the try block ended or raised; and when the requests were
\* acknowledged the registry is empty from the clear of a run up to the
\* mark of the next one, so that every row written then is labelled 0.
C29_MarkBeforeAttackClearOnExit ==
    /\ [](topo.attack => topo.mark # "none")
    /\ [](topo.stopped => topo.clear # "none")
    /\ []((topo.pc = "idle" /\ topo.started)
            => (topo.clear # "none" /\ topo.stopped))
    /\ [](Clean => attacker_ips = {})
    /\ [][Clean => \A j \in Appended :
                        Field(csv_file'[j + 1], "label") = 0]_vars

\* C29 witness: a run whose attack traffic raised after the mark had been
\* acknowledged has cleared the registry and stopped the network, and a row
\* written afterwards for a source that was marked is labelled 0
C29_Witness ==
    /\ topo.pc = "idle"
    /\ topo.exc
    /\ topo.mark = "acked"
    /\ topo.attack
    /\ topo.clear = "acked"
    /\ topo.stopped
    /\ lastOp.op = "post_clear_attackers"
    /\ HostA \in lastOp.pre
    /\ attacker_ips = {}
    /\ \E i \in RowIdx :
        /\ Field(RowAt(i), "src_ip") = HostA
        /\ Field(RowAt(i), "label") = 0
        /\ \E j \in RowIdx : j < i /\ Field(RowAt(j), "label") = 1

====
